---- MODULE Spec2Model ----
(***************************************************************************)
(* Identity reconciliation: the identify controller and formatResponse of  *)
(* controllers/identity.controllers.ts, running against the Contact table  *)
(* of the Prisma schema.  Every awaited store call of identify is one      *)
(* step; the synchronous code that follows a call belongs to its step.     *)
(***************************************************************************)
EXTENDS Integers, Sequences, FiniteSets, TLC

\* ------------------------------------------------------------------ bounds
\* the number of requests that arrive in a run
MaxRequests == 5

\* the number of them that arrive while another request is in flight
MaxOverlaps == 1

\* the number of requests that arrive in a run of FewSpec
MaxConcurrentRequests == 4

Procs == {1, 2}

\* ------------------------------------------------------------------ values
NULL == "NULL"
UNDEF == "UNDEF"
NoId == 0

Emails == {"e1", "e2"}
Phones == {"p1"}

\* what a request body can carry: a value, an empty string, or nothing
ReqEmails == Emails \cup {"", UNDEF}
ReqPhones == Phones \cup {"", UNDEF}

\* JavaScript truthiness of a string | null | undefined
Truthy(x) == x \notin {"", NULL, UNDEF}

\* Prisma writes an undefined field as the column's default (NULL)
Stored(x) == IF x = UNDEF THEN NULL ELSE x

\* ------------------------------------------------------------------ state
VARIABLES
    contacts,     \* the Contact table: a sequence, contacts[i].id = i
    arrived,      \* the number of requests received so far, and of those
                  \*   received while another was in flight
    pc,           \* per request slot: the store call it is about to make
    req,          \* per slot: the request body
    relatedPrimaryIds,
    allPrimaryContacts,   \* ids, in the order the store returned them
    allRelatedContacts,   \* ids, in the order the store returned them
    pending,      \* per slot: the merge updates issued and not yet settled
    solo,         \* per slot: no other request has been in flight since
                  \*   this one arrived
    pre,          \* per solo slot: the table when the request arrived
    first,        \* per solo slot: the record of this request's first
                  \*   run, when it repeats the request answered last
    reads, writes,\* per solo slot: store reads / writes that completed
    last          \* the solo request answered last, until the next request
                  \*   arrives: what it asked, what it got, the table before
                  \*   and after, its store calls

vars == <<contacts, arrived, pc, req, relatedPrimaryIds, allPrimaryContacts,
          allRelatedContacts, pending, solo, pre, first, reads, writes, last>>

NoReq == [email |-> UNDEF, phoneNumber |-> UNDEF]
NoResp == [status |-> 0, primaryContatctId |-> NoId, emails |-> <<>>,
           phoneNumbers |-> <<>>, secondaryContactIds |-> <<>>]

\* ------------------------------------------------------------------ helpers
Range(s) == {s[i] : i \in 1..Len(s)}

RECURSIVE SeqFilter(_, _)
\* the elements of s that are in keep, in order
SeqFilter(s, keep) ==
    IF s = <<>> THEN <<>>
    ELSE IF Head(s) \in keep THEN <<Head(s)>> \o SeqFilter(Tail(s), keep)
         ELSE SeqFilter(Tail(s), keep)

RECURSIVE Dedup(_)
\* [...new Set(s)]: first occurrences, in insertion order
Dedup(s) ==
    IF s = <<>> THEN <<>>
    ELSE <<Head(s)>> \o Dedup(SeqFilter(Tail(s), Range(s) \ {Head(s)}))

\* the column default now(): the clock never runs backwards, and two
\* inserts may fall on the same tick
NowValues(tbl) ==
    IF tbl = <<>> THEN {1}
    ELSE {tbl[Len(tbl)].createdAt, tbl[Len(tbl)].createdAt + 1}

\* orderBy: { createdAt: "asc" } over a set of ids: every order of the rows
\* that the sort key allows
OrderByCreatedAt(tbl, S) ==
    {s \in [1..Cardinality(S) -> S] :
        /\ \A i, j \in 1..Cardinality(S) : i < j =>
              /\ s[i] # s[j]
              /\ tbl[s[i]].createdAt <= tbl[s[j]].createdAt}

\* ------------------------------------------------------------------ store
\* findMany({ where: { OR: [email?, phoneNumber?], deletedAt: null } })
MatchingContacts(tbl, email, phoneNumber) ==
    {i \in 1..Len(tbl) :
        /\ tbl[i].deletedAt = NULL
        /\ \/ Truthy(email) /\ tbl[i].email = email
           \/ Truthy(phoneNumber) /\ tbl[i].phoneNumber = phoneNumber}

\* the loop over matchingContacts collecting relatedPrimaryIds
RelatedPrimaryIds(tbl, matching) ==
    {tbl[i].id : i \in {m \in matching : tbl[m].linkPrecedence = "primary"}}
    \cup {tbl[i].linkedId : i \in {m \in matching :
              tbl[m].linkPrecedence # "primary" /\ tbl[m].linkedId # NoId}}

\* findMany({ where: { id: { in: ids }, deletedAt: null } })
PrimaryRows(tbl, ids) ==
    {i \in 1..Len(tbl) : tbl[i].id \in ids /\ tbl[i].deletedAt = NULL}

\* findMany({ where: { OR: [{ id }, { linkedId: id }], deletedAt: null } })
GroupRows(tbl, id) ==
    {i \in 1..Len(tbl) :
        /\ tbl[i].id = id \/ tbl[i].linkedId = id
        /\ tbl[i].deletedAt = NULL}

\* the same insert with the wrong precedence
NewPrimaryContactAsSecondary(tbl, email, phoneNumber, t) ==
    [id |-> Len(tbl) + 1, email |-> Stored(email),
     phoneNumber |-> Stored(phoneNumber), linkedId |-> NoId,
     linkPrecedence |-> "secondary", createdAt |-> t, deletedAt |-> NULL]

\* create({ data: { email, phoneNumber, linkPrecedence: primary } })
NewPrimaryContact(tbl, email, phoneNumber, t) ==
    [id |-> Len(tbl) + 1, email |-> Stored(email),
     phoneNumber |-> Stored(phoneNumber), linkedId |-> NoId,
     linkPrecedence |-> "primary", createdAt |-> t, deletedAt |-> NULL]

\* create({ data: { email, phoneNumber, linkedId, linkPrecedence: secondary } })
NewSecondaryContact(tbl, email, phoneNumber, primaryId, t) ==
    [id |-> Len(tbl) + 1, email |-> Stored(email),
     phoneNumber |-> Stored(phoneNumber), linkedId |-> primaryId,
     linkPrecedence |-> "secondary", createdAt |-> t, deletedAt |-> NULL]

\* a demotion that is not confined to the losers: every other primary row
DemoteEveryPrimary(tbl, others, primaryId) ==
    [i \in 1..Len(tbl) |->
        IF tbl[i].id # primaryId /\ tbl[i].linkPrecedence = "primary"
        THEN [tbl[i] EXCEPT !.linkedId = primaryId,
                            !.linkPrecedence = "secondary"]
        ELSE tbl[i]]

\* a demotion that forgets the link
DemoteOthersUnlinked(tbl, others, primaryId) ==
    [i \in 1..Len(tbl) |->
        IF tbl[i].id \in others
        THEN [tbl[i] EXCEPT !.linkPrecedence = "secondary"]
        ELSE tbl[i]]

\* updateMany({ where: { id: { in: others } }, data: { linkedId, secondary } })
DemoteOthers(tbl, others, primaryId) ==
    [i \in 1..Len(tbl) |->
        IF tbl[i].id \in others
        THEN [tbl[i] EXCEPT !.linkedId = primaryId,
                            !.linkPrecedence = "secondary"]
        ELSE tbl[i]]

\* a merge that forgets the children of the losers
ReparentNothing(tbl, others, primaryId) == tbl

\* a reparenting that looks at the parent row: only children of rows that
\* are still primary are moved
ReparentChildrenOfPrimaries(tbl, others, primaryId) ==
    [i \in 1..Len(tbl) |->
        IF /\ tbl[i].linkedId \in others
           /\ tbl[tbl[i].linkedId].linkPrecedence = "primary"
        THEN [tbl[i] EXCEPT !.linkedId = primaryId]
        ELSE tbl[i]]

\* updateMany({ where: { linkedId: { in: others } }, data: { linkedId } })
ReparentChildren(tbl, others, primaryId) ==
    [i \in 1..Len(tbl) |->
        IF tbl[i].linkedId \in others
        THEN [tbl[i] EXCEPT !.linkedId = primaryId]
        ELSE tbl[i]]

\* ------------------------------------------------------------------ identify
TruePrimaryId(p) == allPrimaryContacts[p][1]
OtherPrimaryContactIds(p) == Range(Tail(allPrimaryContacts[p]))

HasNewEmail(tbl, group, email) ==
    Truthy(email) /\ ~\E i \in Range(group) : tbl[i].email = email

\* a check that never finds the phone number new
HasNewPhoneNever(tbl, group, phoneNumber) == FALSE

HasNewPhone(tbl, group, phoneNumber) ==
    Truthy(phoneNumber)
    /\ ~\E i \in Range(group) : tbl[i].phoneNumber = phoneNumber

\* contact.email === email && contact.phoneNumber === phoneNumber
CombinationExists(tbl, group, email, phoneNumber) ==
    \E i \in Range(group) :
        tbl[i].email = email /\ tbl[i].phoneNumber = phoneNumber

\* the decision with the phone number left out
NeedsSecondaryEmailOnly(tbl, group, email, phoneNumber) ==
    /\ HasNewEmail(tbl, group, email)
    /\ ~CombinationExists(tbl, group, email, phoneNumber)

\* if (hasNewEmail || hasNewPhone) { if (!combinationExists) create }
NeedsSecondary(tbl, group, email, phoneNumber) ==
    /\ HasNewEmail(tbl, group, email) \/ HasNewPhone(tbl, group, phoneNumber)
    /\ ~CombinationExists(tbl, group, email, phoneNumber)

\* formatResponse over the rows (ids) of tbl, in the given order
FormatResponse(tbl, list) ==
    LET primaryContact == tbl[list[1]]
        allEmails == Dedup(SeqFilter([i \in 1..Len(list) |-> tbl[list[i]].email],
                                     Emails))
        allPhoneNumbers ==
            Dedup(SeqFilter([i \in 1..Len(list) |-> tbl[list[i]].phoneNumber],
                            Phones))
        sortedEmails ==
            SeqFilter(<<primaryContact.email>>
                        \o SeqFilter(allEmails, Emails \ {primaryContact.email}),
                      Emails)
        sortedPhoneNumbers ==
            SeqFilter(<<primaryContact.phoneNumber>>
                        \o SeqFilter(allPhoneNumbers,
                                     Phones \ {primaryContact.phoneNumber}),
                      Phones)
    IN  [status |-> 200,
         primaryContatctId |-> primaryContact.id,
         emails |-> sortedEmails,
         phoneNumbers |-> sortedPhoneNumbers,
         secondaryContactIds |->
             SeqFilter([i \in 1..Len(list) |-> tbl[list[i]].id],
                       (1..Len(tbl)) \ {primaryContact.id})]

BadRequest == [NoResp EXCEPT !.status = 400]
ServerError == [NoResp EXCEPT !.status = 500]

\* a guard that tests for missing fields only, not for empty ones
IsRejectedIfMissing(email, phoneNumber) ==
    email = UNDEF /\ phoneNumber = UNDEF

\* if (!email && !phoneNumber) return res.status(400)
IsRejected(email, phoneNumber) == ~Truthy(email) /\ ~Truthy(phoneNumber)

Active == {p \in Procs : pc[p] # "idle"}

NoRun == [req |-> NoReq, resp |-> NoResp, pre |-> <<>>, post |-> <<>>,
          reads |-> 0, writes |-> 0]
NoLast == [req |-> NoReq, resp |-> NoResp, pre |-> <<>>, post |-> <<>>,
           reads |-> 0, writes |-> 0, first |-> NoRun]

Init ==
    /\ contacts = <<>>
    /\ arrived = [total |-> 0, overlapping |-> 0]
    /\ pc = [p \in Procs |-> "idle"]
    /\ req = [p \in Procs |-> NoReq]
    /\ relatedPrimaryIds = [p \in Procs |-> {}]
    /\ allPrimaryContacts = [p \in Procs |-> <<>>]
    /\ allRelatedContacts = [p \in Procs |-> <<>>]
    /\ pending = [p \in Procs |-> {}]
    /\ solo = [p \in Procs |-> FALSE]
    /\ pre = [p \in Procs |-> <<>>]
    /\ first = [p \in Procs |-> NoRun]
    /\ reads = [p \in Procs |-> 0]
    /\ writes = [p \in Procs |-> 0]
    /\ last = NoLast

\* res.status(..).json(..): the request is answered and its slot is free
Respond(p, alone, r, response, tbl, before, fst, nreads, nwrites) ==
    /\ last' = IF alone
               THEN [req |-> r, resp |-> response, pre |-> before,
                     post |-> tbl, reads |-> nreads, writes |-> nwrites,
                     first |-> fst]
               ELSE NoLast
    /\ pc' = [pc EXCEPT ![p] = "idle"]
    /\ req' = [req EXCEPT ![p] = NoReq]
    /\ relatedPrimaryIds' = [relatedPrimaryIds EXCEPT ![p] = {}]
    /\ allPrimaryContacts' = [allPrimaryContacts EXCEPT ![p] = <<>>]
    /\ allRelatedContacts' = [allRelatedContacts EXCEPT ![p] = <<>>]
    /\ solo' = [solo EXCEPT ![p] = FALSE]
    /\ pre' = [pre EXCEPT ![p] = <<>>]
    /\ first' = [first EXCEPT ![p] = NoRun]
    /\ reads' = [reads EXCEPT ![p] = 0]
    /\ writes' = [writes EXCEPT ![p] = 0]

\* a store call of slot p completed: counted while the request runs alone
Counted(n, p) == IF solo[p] THEN n + 1 ELSE n

\* a request body arrives; the guard on email and phoneNumber answers 400
Arrive(p, r, fst) ==
    /\ pc[p] = "idle"
    /\ \A q \in Procs : q < p => pc[q] # "idle"
    /\ arrived.total < MaxRequests
    /\ Active # {} => arrived.overlapping < MaxOverlaps
    /\ arrived' = [total |-> arrived.total + 1,
                   overlapping |-> IF Active # {}
                                   THEN arrived.overlapping + 1
                                   ELSE arrived.overlapping]
    /\ IF IsRejected(r.email, r.phoneNumber)
       THEN Respond(p, Active = {}, r, BadRequest, contacts, contacts, fst,
                    0, 0)
       ELSE /\ pc' = [pc EXCEPT ![p] = "findMatching"]
            /\ req' = [req EXCEPT ![p] = r]
            /\ solo' = [q \in Procs |-> q = p /\ Active = {}]
            /\ pre' = [q \in Procs |->
                         IF q = p /\ Active = {} THEN contacts ELSE <<>>]
            /\ first' = [q \in Procs |->
                           IF q = p /\ Active = {} THEN fst ELSE NoRun]
            /\ reads' = [q \in Procs |-> 0]
            /\ writes' = [q \in Procs |-> 0]
            /\ last' = NoLast
            /\ UNCHANGED <<relatedPrimaryIds, allPrimaryContacts,
                           allRelatedContacts>>
    /\ UNCHANGED <<contacts, pending>>

Receive(p) ==
    \E email \in ReqEmails, phoneNumber \in ReqPhones :
        Arrive(p, [email |-> email, phoneNumber |-> phoneNumber], NoRun)

\* a request body whose fields are values or missing, never empty
ReceiveValues(p) ==
    \E email \in Emails \cup {UNDEF}, phoneNumber \in Phones \cup {UNDEF} :
        Arrive(p, [email |-> email, phoneNumber |-> phoneNumber], NoRun)

\* the caller sends the request answered last once more
Repeat(p) ==
    /\ last.resp.status = 200
    /\ Arrive(p, last.req,
              [req |-> last.req, resp |-> last.resp, pre |-> last.pre,
               post |-> last.post, reads |-> last.reads,
               writes |-> last.writes])

\* 1. find all contacts that directly match the request
FindMatching(p) ==
    /\ pc[p] = "findMatching"
    /\ LET matching == MatchingContacts(contacts, req[p].email,
                                        req[p].phoneNumber)
       IN  IF matching = {}
           THEN /\ pc' = [pc EXCEPT ![p] = "createPrimary"]
                /\ UNCHANGED relatedPrimaryIds
           ELSE /\ pc' = [pc EXCEPT ![p] = "findPrimaries"]
                /\ relatedPrimaryIds' =
                     [relatedPrimaryIds EXCEPT
                        ![p] = RelatedPrimaryIds(contacts, matching)]
    /\ reads' = [reads EXCEPT ![p] = Counted(@, p)]
    /\ UNCHANGED <<contacts, arrived, req, allPrimaryContacts, allRelatedContacts,
                   pending, solo, pre, first, writes, last>>

\* case 1: no matching contacts, create a new primary contact
CreatePrimary(p) ==
    /\ pc[p] = "createPrimary"
    /\ \E t \in NowValues(contacts) :
         LET newContact == NewPrimaryContact(contacts, req[p].email,
                                             req[p].phoneNumber, t)
             tbl == Append(contacts, newContact)
         IN  /\ contacts' = tbl
             /\ Respond(p, solo[p], req[p],
                        FormatResponse(tbl, <<newContact.id>>), tbl, pre[p],
                        first[p], reads[p], Counted(writes[p], p))
    /\ UNCHANGED <<arrived, pending>>

\* get all primary contacts from the set, ordered by creation date; with
\* more than one, both merge updates are issued together (Promise.all)
FindPrimaries(p) ==
    /\ pc[p] = "findPrimaries"
    /\ \E list \in OrderByCreatedAt(contacts,
                                    PrimaryRows(contacts, relatedPrimaryIds[p])) :
        /\ allPrimaryContacts' = [allPrimaryContacts EXCEPT ![p] = list]
        /\ IF Len(list) > 1
           THEN /\ pc' = [pc EXCEPT ![p] = "merge"]
                /\ pending' = [pending EXCEPT ![p] = {"demote", "reparent"}]
           ELSE /\ pc' = [pc EXCEPT ![p] = "findGroup"]
                /\ UNCHANGED pending
    /\ reads' = [reads EXCEPT ![p] = Counted(@, p)]
    /\ UNCHANGED <<contacts, arrived, req, relatedPrimaryIds, allRelatedContacts,
                   solo, pre, first, writes, last>>

\* Promise.all resolves once both updates have been applied
AfterUpdate(p, u) ==
    /\ pc[p] = "merge"
    /\ u \in pending[p]
    /\ pending' = [pending EXCEPT ![p] = @ \ {u}]
    /\ pc' = [pc EXCEPT ![p] = IF pending[p] = {u} THEN "findGroup" ELSE @]
    /\ writes' = [writes EXCEPT ![p] = Counted(@, p)]
    /\ UNCHANGED <<arrived, req, relatedPrimaryIds, allPrimaryContacts,
                   allRelatedContacts, solo, pre, first, reads, last>>

\* merge update 1: the newer primary contacts become secondary
Demote(p) ==
    /\ AfterUpdate(p, "demote")
    /\ contacts' = DemoteOthers(contacts, OtherPrimaryContactIds(p),
                                TruePrimaryId(p))

\* merge update 2: their children point to the true primary
Reparent(p) ==
    /\ AfterUpdate(p, "reparent")
    /\ contacts' = ReparentChildren(contacts, OtherPrimaryContactIds(p),
                                    TruePrimaryId(p))

\* case 3: load the final group and decide whether a secondary is needed
FindGroup(p) ==
    /\ pc[p] = "findGroup"
    /\ \E list \in OrderByCreatedAt(contacts,
                                    GroupRows(contacts, TruePrimaryId(p))) :
        IF NeedsSecondary(contacts, list, req[p].email, req[p].phoneNumber)
        THEN /\ pc' = [pc EXCEPT ![p] = "createSecondary"]
             /\ allRelatedContacts' = [allRelatedContacts EXCEPT ![p] = list]
             /\ reads' = [reads EXCEPT ![p] = Counted(@, p)]
             /\ UNCHANGED <<req, relatedPrimaryIds, allPrimaryContacts,
                            solo, pre, first, writes, last>>
        ELSE Respond(p, solo[p], req[p], FormatResponse(contacts, list),
                     contacts, pre[p], first[p], Counted(reads[p], p),
                     writes[p])
    /\ UNCHANGED <<contacts, arrived, pending>>

\* create the secondary and push it on the final list
CreateSecondary(p) ==
    /\ pc[p] = "createSecondary"
    /\ \E t \in NowValues(contacts) :
         LET newSecondaryContact ==
                 NewSecondaryContact(contacts, req[p].email,
                                     req[p].phoneNumber, TruePrimaryId(p), t)
             tbl == Append(contacts, newSecondaryContact)
         IN  /\ contacts' = tbl
             /\ Respond(p, solo[p], req[p],
                        FormatResponse(tbl, Append(allRelatedContacts[p],
                                                   newSecondaryContact.id)),
                        tbl, pre[p], first[p], reads[p],
                        Counted(writes[p], p))
    /\ UNCHANGED <<arrived, pending>>

\* an awaited store call throws: the catch block answers 500
StoreCallFails(p) ==
    /\ pc[p] \in {"findMatching", "createPrimary", "findPrimaries",
                  "findGroup", "createSecondary"}
    /\ Respond(p, solo[p], req[p], ServerError, contacts, pre[p], first[p],
               reads[p], writes[p])
    /\ UNCHANGED <<contacts, arrived, pending>>

\* one of the two merge updates throws: Promise.all rejects and the catch
\* block answers 500.  The other update was issued with it: if it has not been
\* applied yet it is applied all the same, or it throws as well; nothing is
\* undone.
MergeUpdateFails(p) ==
    /\ pc[p] = "merge"
    /\ \E u \in pending[p] : \E late \in SUBSET (pending[p] \ {u}) :
         LET tbl ==
                 IF "demote" \in late
                 THEN DemoteOthers(contacts, OtherPrimaryContactIds(p),
                                   TruePrimaryId(p))
                 ELSE IF "reparent" \in late
                 THEN ReparentChildren(contacts, OtherPrimaryContactIds(p),
                                       TruePrimaryId(p))
                 ELSE contacts
         IN  /\ contacts' = tbl
             /\ Respond(p, solo[p], req[p], ServerError, tbl, pre[p],
                        first[p], reads[p],
                        IF solo[p] THEN writes[p] + Cardinality(late)
                        ELSE writes[p])
    /\ pending' = [pending EXCEPT ![p] = {}]
    /\ UNCHANGED arrived

\* the store calls of a request in flight
Handle(p) ==
    \/ FindMatching(p)
    \/ CreatePrimary(p)
    \/ FindPrimaries(p)
    \/ Demote(p)
    \/ Reparent(p)
    \/ FindGroup(p)
    \/ CreateSecondary(p)

Fault(p) ==
    \/ StoreCallFails(p)
    \/ MergeUpdateFails(p)

\* requests run concurrently against the shared store
Next == \E p \in Procs : ReceiveValues(p) \/ Handle(p)

Spec == Init /\ [][Next]_vars

\* requests run concurrently, a few of them
FewNext ==
    \/ \E p \in Procs : arrived.total < MaxConcurrentRequests /\ ReceiveValues(p)
    \/ \E p \in Procs : Handle(p)

FewSpec == Init /\ [][FewNext]_vars

\* requests run one at a time, and a caller may repeat its request
SeqNext == Receive(1) \/ Repeat(1) \/ Handle(1)

SeqSpec == Init /\ [][SeqNext]_vars

\* requests run one at a time and store calls may throw
FaultNext == Receive(1) \/ Handle(1) \/ Fault(1)

FaultSpec == Init /\ [][FaultNext]_vars

\* ------------------------------------------------------------------ claims
\* The statements below are written over the record of the request answered
\* last and over the table, with their own reading of the request.

Present(x) == x \in Emails \cup Phones
ValueOf(x) == IF x = UNDEF THEN NULL ELSE x

Answered == last.resp.status = 200
AtRest == \A p \in Procs : pc[p] = "idle"

LiveMatches(tbl, r) ==
    {i \in 1..Len(tbl) :
        /\ tbl[i].deletedAt = NULL
        /\ \/ Present(r.email) /\ tbl[i].email = r.email
           \/ Present(r.phoneNumber) /\ tbl[i].phoneNumber = r.phoneNumber}

PrimaryOf(tbl, i) ==
    IF tbl[i].linkPrecedence = "primary" THEN i ELSE tbl[i].linkedId

CandidatePrimaries(tbl, r) == {PrimaryOf(tbl, i) : i \in LiveMatches(tbl, r)}

\* the rows of before are rows of after, unchanged
Untouched(before, after) ==
    /\ Len(after) >= Len(before)
    /\ \A i \in 1..Len(before) : after[i] = before[i]

Inserted == Len(last.post) - Len(last.pre)
NewRow == last.post[Len(last.post)]

NoMatch == Answered /\ LiveMatches(last.pre, last.req) = {}

\* C1: a request that matches no live contact inserts exactly one row, a
\* primary with no linkedId carrying the request's email and phone, changes
\* no other row, and is answered with that row as primary and no secondaries.
C1_NoMatchCreatesPrimary ==
    NoMatch =>
        /\ Inserted = 1
        /\ Untouched(last.pre, last.post)
        /\ NewRow.linkPrecedence = "primary"
        /\ NewRow.linkedId = NoId
        /\ NewRow.email = ValueOf(last.req.email)
        /\ NewRow.phoneNumber = ValueOf(last.req.phoneNumber)
        /\ last.resp.primaryContatctId = NewRow.id
        /\ last.resp.secondaryContactIds = <<>>

C1_Witness == NoMatch /\ Len(last.pre) >= 1

\* the candidate primary created strictly before every other candidate
Oldest(tbl, S) ==
    {o \in S : \A c \in S \ {o} : tbl[o].createdAt < tbl[c].createdAt}

Bridges == Answered /\ Cardinality(CandidatePrimaries(last.pre, last.req)) >= 2

\* the table half of C2: the strictly oldest candidate stays primary and every
\* other candidate is a secondary linked to it
C2_StorePart ==
    Bridges =>
        \A o \in Oldest(last.pre, CandidatePrimaries(last.pre, last.req)) :
            /\ last.post[o].linkPrecedence = "primary"
            /\ \A c \in CandidatePrimaries(last.pre, last.req) \ {o} :
                  /\ last.post[c].linkPrecedence = "secondary"
                  /\ last.post[c].linkedId = o

\* C2: when the matches belong to two or more primaries, the oldest candidate
\* stays primary, every other candidate becomes a secondary linked to it, and
\* the response names the oldest candidate as primary.
C2_OldestWinsMerge ==
    Bridges =>
        \A o \in Oldest(last.pre, CandidatePrimaries(last.pre, last.req)) :
            /\ last.post[o].linkPrecedence = "primary"
            /\ \A c \in CandidatePrimaries(last.pre, last.req) \ {o} :
                  /\ last.post[c].linkPrecedence = "secondary"
                  /\ last.post[c].linkedId = o
            /\ last.resp.primaryContatctId = o

\* C3: with requests run one at a time, whenever no request is in flight
\* every secondary is linked to a row that is primary.
C3_FlatLinks ==
    AtRest =>
        \A i \in 1..Len(contacts) :
            contacts[i].linkPrecedence = "secondary" =>
                /\ contacts[i].linkedId \in 1..Len(contacts)
                /\ contacts[contacts[i].linkedId].linkPrecedence = "primary"

\* a merge whose loser had a secondary of its own
C3_Witness ==
    /\ AtRest
    /\ Bridges
    /\ \E i, c \in 1..Len(last.pre) :
          /\ last.pre[c].linkPrecedence = "primary"
          /\ last.post[c].linkPrecedence = "secondary"
          /\ last.pre[i].linkedId = c
          /\ last.post[i].linkedId = last.post[c].linkedId

Matched == Answered /\ LiveMatches(last.pre, last.req) # {}

\* the primaries, after the request, of the rows it matched
Canonical == {PrimaryOf(last.post, i) : i \in LiveMatches(last.pre, last.req)}

\* the live rows of the group of P after the request, the inserted row aside
GroupOf(P) ==
    {i \in 1..Len(last.pre) :
        last.post[i].deletedAt = NULL /\ PrimaryOf(last.post, i) = P}

BringsNewValue(G) ==
    \/ /\ Present(last.req.email)
       /\ \A i \in G : last.post[i].email # last.req.email
    \/ /\ Present(last.req.phoneNumber)
       /\ \A i \in G : last.post[i].phoneNumber # last.req.phoneNumber

PairIn(tbl, G) ==
    \E i \in G : /\ tbl[i].email = ValueOf(last.req.email)
                 /\ tbl[i].phoneNumber = ValueOf(last.req.phoneNumber)

\* C4: a request that matches a live row inserts a row exactly when it brings
\* an email or a phone that no member of the resolved group has and no member
\* has the request's exact pair; the row inserted is a secondary with the
\* request's email and phone, linked to the canonical primary; at most one
\* row is inserted.
C4_SecondaryIffNewValue ==
    Matched =>
        \E P \in Canonical :
            /\ Canonical = {P}
            /\ Inserted \in {0, 1}
            /\ Inserted = 1 <=>
                  BringsNewValue(GroupOf(P)) /\ ~PairIn(last.post, GroupOf(P))
            /\ Inserted = 1 =>
                  /\ NewRow.linkPrecedence = "secondary"
                  /\ NewRow.linkedId = P
                  /\ NewRow.email = ValueOf(last.req.email)
                  /\ NewRow.phoneNumber = ValueOf(last.req.phoneNumber)

\* a phone new to a group that already has the request's email
C4_Witness ==
    /\ Matched
    /\ Inserted = 1
    /\ Present(last.req.email) /\ Present(last.req.phoneNumber)
    /\ \E i \in 1..Len(last.pre) : last.pre[i].email = last.req.email

ExactPair ==
    /\ Answered
    /\ PairIn(last.pre, {i \in 1..Len(last.pre) : last.pre[i].deletedAt = NULL})

\* the request answered last was the second of two identical calls, and the
\* exact pair was there before the first
SecondExactCall ==
    /\ ExactPair
    /\ last.first.resp.status = 200
    /\ PairIn(last.first.pre,
              {i \in 1..Len(last.first.pre) : last.first.pre[i].deletedAt = NULL})

\* the table half of C5: a request for an exact existing pair inserts nothing
C5_NoInsertPart == ExactPair => Inserted = 0

\* C5: a request whose (email, phone) is exactly the pair of an existing live
\* row inserts nothing, and called twice it is answered with the same
\* secondaryContactIds both times.
C5_IdempotentExactMatch ==
    /\ ExactPair => Inserted = 0
    /\ SecondExactCall =>
          last.resp.secondaryContactIds = last.first.resp.secondaryContactIds

\* C6: a request with email and phoneNumber both absent or empty is answered
\* 400 before any store call: it never reaches a store call, it has read and
\* written nothing, and the table is as before.
C6_EmptyRequestRejected ==
    /\ \A p \in Procs :
          pc[p] # "idle" => Present(req[p].email) \/ Present(req[p].phoneNumber)
    /\ (/\ last.resp.status # 0
        /\ ~Present(last.req.email)
        /\ ~Present(last.req.phoneNumber))
       => /\ last.resp.status = 400
          /\ last.reads = 0
          /\ last.writes = 0
          /\ last.post = last.pre
          /\ contacts = last.pre

\* an empty email with a missing phone number, rejected with rows in the table
C6_Witness ==
    /\ last.resp.status = 400
    /\ last.req.email = "" /\ last.req.phoneNumber = UNDEF
    /\ Len(contacts) >= 1

\* C7: concurrent requests carrying the same brand-new (email, phone) pair
\* create one primary between them: no two primary rows carry the same pair.
C7_OnePrimaryPerNewPair ==
    \A i, j \in 1..Len(contacts) :
        (/\ i # j
         /\ contacts[i].linkPrecedence = "primary"
         /\ contacts[j].linkPrecedence = "primary")
        => \/ contacts[i].email # contacts[j].email
           \/ contacts[i].phoneNumber # contacts[j].phoneNumber

\* the merge of slot p has demoted its losers and has yet to move a child
\* of theirs: the child is linked to a secondary
HalfMerged(p) ==
    /\ pc[p] = "merge"
    /\ pending[p] = {"reparent"}
    /\ \E i \in 1..Len(contacts) \ Range(allPrimaryContacts[p]) :
          /\ contacts[i].linkedId \in OtherPrimaryContactIds(p)
          /\ contacts[contacts[i].linkedId].linkPrecedence = "secondary"
          /\ contacts[contacts[i].linkedId].linkedId = TruePrimaryId(p)

\* C8: the two updates of a merge take effect as one step: no other request
\* is about to read the table while one update is applied and the other not.
C8_MergeAtomic ==
    \A p, q \in Procs :
        (p # q /\ HalfMerged(p)) =>
            pc[q] \notin {"findMatching", "findPrimaries", "findGroup"}

\* C9: once all concurrent requests have completed, no secondary is linked
\* to a row that is itself secondary.
C9_NoSecondaryOfSecondary ==
    AtRest =>
        ~\E i, j \in 1..Len(contacts) :
            /\ contacts[i].linkPrecedence = "secondary"
            /\ contacts[i].linkedId = j
            /\ contacts[j].linkPrecedence = "secondary"

\* C10: a request answered with an error leaves the table as it was when the
\* request arrived.
C10_FailureLeavesStore ==
    last.resp.status = 500 => last.post = last.pre

\* the request answered last was sent a second time, right after its first
\* run was answered
Retried == Answered /\ last.first.resp.status = 200

\* the table half of C11: the second run of a request writes nothing
C11_NoWritePart ==
    Retried => last.writes = 0 /\ last.post = last.pre

\* C11: the second run of a request, right after the first, performs no store
\* write and is answered as the first was.
C11_RetryIdempotent ==
    Retried =>
        /\ last.writes = 0
        /\ last.post = last.pre
        /\ last.resp = last.first.resp

\* the primary of the group the request answered last resolved to
Resolved == IF NoMatch THEN {NewRow.id} ELSE Canonical

\* the live rows of the group of P after the request
Members(P) ==
    {i \in 1..Len(last.post) :
        last.post[i].deletedAt = NULL /\ PrimaryOf(last.post, i) = P}

\* the member of G created first among those carrying value v in column f
FirstSeen(G, f, v) ==
    CHOOSE i \in G :
        /\ last.post[i][f] = v
        /\ \A j \in G : last.post[j][f] = v => i <= j

\* out lists the values of column f of the group of P: each non-null value
\* once, the primary's own first, the others as first seen
ListsColumn(out, P, f) ==
    /\ Range(out) = {last.post[i][f] : i \in Members(P)} \ {NULL}
    /\ Cardinality(Range(out)) = Len(out)
    /\ last.post[P][f] # NULL => Len(out) >= 1 /\ out[1] = last.post[P][f]
    /\ \A j, k \in 1..Len(out) :
          (/\ j < k
           /\ out[j] # last.post[P][f]
           /\ out[j] \in {last.post[i][f] : i \in Members(P)}
           /\ out[k] \in {last.post[i][f] : i \in Members(P)})
          => FirstSeen(Members(P), f, out[j]) < FirstSeen(Members(P), f, out[k])

\* the part of C12 that does not depend on the order of the rows: the values
\* listed are the non-empty values of the group, each once
C12_ValuesPart ==
    Answered =>
        \A P \in Resolved :
            /\ Range(last.resp.emails) =
                  {last.post[i].email : i \in Members(P)} \cap Emails
            /\ Range(last.resp.phoneNumbers) =
                  {last.post[i].phoneNumber : i \in Members(P)} \cap Phones
            /\ Cardinality(Range(last.resp.emails)) = Len(last.resp.emails)
            /\ Cardinality(Range(last.resp.phoneNumbers)) =
                  Len(last.resp.phoneNumbers)

\* C12: a successful response lists exactly the distinct non-null emails of
\* the live rows of the resolved group, each once, the primary's own first and
\* the others in creation order; likewise the phone numbers.
C12_ResponseLists ==
    Answered =>
        \A P \in Resolved :
            /\ ListsColumn(last.resp.emails, P, "email")
            /\ ListsColumn(last.resp.phoneNumbers, P, "phoneNumber")

\* the part of C13 that does not depend on the order of the rows: the ids
\* reported are the live members of the resolved group, each once
C13_MembersPart ==
    Answered =>
        \A P \in Resolved :
            /\ {last.resp.primaryContatctId}
                  \cup Range(last.resp.secondaryContactIds) = Members(P)
            /\ Len(last.resp.secondaryContactIds) = Cardinality(Members(P)) - 1

\* C13: a successful response names the group's primary row as primary and
\* lists every other live member once, in creation order, a row inserted by
\* the request coming last.
C13_ResponseIds ==
    Answered =>
        \A P \in Resolved :
            LET ids == last.resp.secondaryContactIds
            IN  /\ last.resp.primaryContatctId = P
                /\ Range(ids) = Members(P) \ {P}
                /\ \A j, k \in 1..Len(ids) : j < k => ids[j] < ids[k]
                /\ (Matched /\ Inserted = 1) => ids[Len(ids)] = NewRow.id

\* two runs of one request, neither of which wrote: the same table, the same
\* group, the same rows, read twice
ReadTwice ==
    /\ Retried
    /\ last.first.post = last.first.pre
    /\ last.post = last.pre

\* C14: two calls with the same request over the same group are answered
\* identically, whatever order the store returns rows of equal createdAt in.
C14_Deterministic == ReadTwice => last.resp = last.first.resp

\* the first of the rows S in ascending (createdAt, id)
FirstByCreatedAtId(tbl, S) ==
    CHOOSE o \in S :
        \A c \in S \ {o} :
            \/ tbl[o].createdAt < tbl[c].createdAt
            \/ tbl[o].createdAt = tbl[c].createdAt /\ o < c

\* C15: of the candidate primaries of a merge the first in ascending
\* (createdAt, id) is elected: among candidates created in the same tick the
\* one with the smaller id stays primary and the others are demoted to it.
C15_TieBrokenById ==
    Bridges =>
        LET S == CandidatePrimaries(last.pre, last.req)
            o == FirstByCreatedAtId(last.pre, S)
        IN  /\ last.post[o].linkPrecedence = "primary"
            /\ \A c \in S \ {o} :
                  /\ last.post[c].linkPrecedence = "secondary"
                  /\ last.post[c].linkedId = o

Live(tbl) == {i \in 1..Len(tbl) : tbl[i].deletedAt = NULL}

\* rows i and j of the table carry the same email or the same phone number,
\* a value outside the set none
Share(i, j, none) ==
    \/ contacts[i].email = contacts[j].email /\ contacts[i].email \notin none
    \/ /\ contacts[i].phoneNumber = contacts[j].phoneNumber
       /\ contacts[i].phoneNumber \notin none

\* every live row leads to one live primary row
OnePrimaryPerGroup ==
    \A i \in Live(contacts) :
        /\ PrimaryOf(contacts, i) \in Live(contacts)
        /\ contacts[PrimaryOf(contacts, i)].linkPrecedence = "primary"

\* the part of C16 about values: rows sharing a non-empty email or phone
\* number are in one group
C16_ValuesPart ==
    AtRest =>
        /\ OnePrimaryPerGroup
        /\ \A i, j \in Live(contacts) :
              Share(i, j, {NULL, ""}) =>
                  PrimaryOf(contacts, i) = PrimaryOf(contacts, j)

\* C16: with requests run one at a time from an empty table, whenever no
\* request is in flight any two live rows that share a non-null email or a
\* non-null phone number have the same primary, and every group has exactly
\* one primary.
C16_SharedValueSameGroup ==
    AtRest =>
        /\ OnePrimaryPerGroup
        /\ \A i, j \in Live(contacts) :
              Share(i, j, {NULL}) =>
                  PrimaryOf(contacts, i) = PrimaryOf(contacts, j)

\* row i of after is row i of before, linkedId and linkPrecedence aside
SameIdentity(before, after, i) ==
    /\ after[i].id = before[i].id
    /\ after[i].email = before[i].email
    /\ after[i].phoneNumber = before[i].phoneNumber
    /\ after[i].createdAt = before[i].createdAt
    /\ after[i].deletedAt = before[i].deletedAt

\* the candidate primaries that the request did not elect
Losers == CandidatePrimaries(last.pre, last.req) \ Canonical

\* the rows of groups that the request did not match
Outsiders ==
    {i \in 1..Len(last.pre) :
        PrimaryOf(last.pre, i) \notin CandidatePrimaries(last.pre, last.req)}

\* C17: a request removes no row and changes no id, email, phoneNumber or
\* createdAt; the rows it changes are losers of its merge (linkedId and
\* linkPrecedence) and rows that were linked to a loser (linkedId only); rows
\* of groups it did not match are unchanged.  The first conjunct covers the
\* request in flight, the second the request answered.
C17_FrameOfIdentify ==
    /\ \A p \in Procs :
          solo[p] =>
              /\ Len(contacts) >= Len(pre[p])
              /\ \A i \in 1..Len(pre[p]) : SameIdentity(pre[p], contacts, i)
    /\ last.resp.status # 0 =>
          /\ Len(last.post) >= Len(last.pre)
          /\ \A i \in 1..Len(last.pre) :
                /\ SameIdentity(last.pre, last.post, i)
                /\ last.post[i] # last.pre[i] =>
                      \/ i \in Losers
                      \/ /\ last.pre[i].linkedId \in Losers
                         /\ last.post[i].linkPrecedence =
                               last.pre[i].linkPrecedence
                /\ i \in Outsiders => last.post[i] = last.pre[i]

\* a merge answered with a third group in the table
C17_Witness ==
    /\ Bridges
    /\ Losers # {}
    /\ \E i \in Outsiders : last.pre[i].linkPrecedence = "primary"

\* a row has a linkedId exactly when it is secondary
LinkedIffSecondary ==
    \A i \in 1..Len(contacts) :
        contacts[i].linkedId # NoId <=> contacts[i].linkPrecedence = "secondary"

\* a step leaves every secondary row secondary
StaysSecondary ==
    \A i \in 1..Len(contacts) :
        contacts[i].linkPrecedence = "secondary" =>
            /\ i <= Len(contacts')
            /\ contacts'[i].linkPrecedence = "secondary"

\* C18: in every state, concurrent runs included, a row has a linkedId if
\* and only if it is secondary, and no step turns a secondary into a primary.
C18_LinkedIffSecondary == [] LinkedIffSecondary /\ [][StaysSecondary]_vars

\* two requests in flight, one of them between its two merge updates with
\* its losers demoted
C18_Witness ==
    \E p, q \in Procs :
        /\ p # q
        /\ pc[q] # "idle"
        /\ pc[p] = "merge"
        /\ pending[p] = {"reparent"}
        /\ \A i \in OtherPrimaryContactIds(p) :
              /\ contacts[i].linkPrecedence = "secondary"
              /\ contacts[i].linkedId = TruePrimaryId(p)

\* C19: a successful response covers the request: an email the request
\* carries is among the response's emails, and a phone number it carries is
\* among the response's phoneNumbers.
C19_ResponseCoversRequest ==
    Answered =>
        /\ Present(last.req.email) =>
              last.req.email \in Range(last.resp.emails)
        /\ Present(last.req.phoneNumber) =>
              last.req.phoneNumber \in Range(last.resp.phoneNumbers)

\* a request whose email was in one group and whose phone number in another
C19_Witness ==
    /\ Bridges
    /\ Present(last.req.email) /\ Present(last.req.phoneNumber)
    /\ Inserted = 0
    /\ \E i, j \in LiveMatches(last.pre, last.req) :
          /\ last.pre[i].email = last.req.email
          /\ last.pre[j].phoneNumber = last.req.phoneNumber
          /\ PrimaryOf(last.pre, i) # PrimaryOf(last.pre, j)

\* the merge with the demotion applied first, and with the reparenting first
DemoteThenReparent(tbl, others, primaryId) ==
    ReparentChildren(DemoteOthers(tbl, others, primaryId), others, primaryId)

ReparentThenDemote(tbl, others, primaryId) ==
    DemoteOthers(ReparentChildren(tbl, others, primaryId), others, primaryId)

\* C20: within a request run alone the two merge updates commute: whichever
\* is applied first, the table after both is the same, with the losers and
\* the rows that were linked to them linked to the canonical primary.  At
\* each point of the merge the table is the one the updates applied so far
\* give, and the update still pending completes it to that same table.
C20_MergeUpdatesCommute ==
    \A p \in Procs :
        (solo[p] /\ pc[p] = "merge") =>
            LET others == OtherPrimaryContactIds(p)
                P == TruePrimaryId(p)
                merged == DemoteThenReparent(pre[p], others, P)
            IN  /\ ReparentThenDemote(pre[p], others, P) = merged
                /\ pending[p] = {"demote", "reparent"} => contacts = pre[p]
                /\ pending[p] = {"reparent"} =>
                      /\ contacts = DemoteOthers(pre[p], others, P)
                      /\ ReparentChildren(contacts, others, P) = merged
                /\ pending[p] = {"demote"} =>
                      /\ contacts = ReparentChildren(pre[p], others, P)
                      /\ DemoteOthers(contacts, others, P) = merged
                /\ \A i \in 1..Len(merged) :
                      (i \in others \/ pre[p][i].linkedId \in others) =>
                          /\ merged[i].linkedId = P
                          /\ merged[i].linkPrecedence = "secondary"

\* the reparenting was applied first and moved a child of a loser; the
\* demotion is still to come
C20_Witness ==
    /\ solo[1]
    /\ pc[1] = "merge"
    /\ pending[1] = {"demote"}
    /\ \E i \in 1..Len(contacts) :
          /\ pre[1][i].linkedId \in OtherPrimaryContactIds(1)
          /\ contacts[i].linkedId = TruePrimaryId(1)

====
